---- MODULE Spec2Model ----
(***************************************************************************)
(* A model of the Git helper class of rush-lib (class Git): the memoized   *)
(* lookups of the Git binary and of user.email, the command runner, the    *)
(* fetch / merge-base / diff operations, the remote resolver and the URL   *)
(* normalizer.                                                             *)
(*                                                                         *)
(* JavaScript strings are modelled as sequences of one-character strings,  *)
(* so that trimming, splitting, regular expressions and URL parsing are    *)
(* computed character by character, as the code computes them.             *)
(***************************************************************************)
EXTENDS Integers, Sequences, FiniteSets, TLC

VARIABLES
  \* ---- URL normalizer (SpecUrl)
  urlParts,      \* the components the input URL was assembled from
  gitUrl,        \* the argument of normalizeGitUrlForComparison
  normalized,    \* normalizeGitUrlForComparison(gitUrl)
  renormalized,  \* normalizeGitUrlForComparison(normalized)
  urlPc,         \* "input" -> "normalized" -> "renormalized"
  \* ---- the environment of a Git instance (Spec)
  gitBinaryPath, \* EnvironmentConfiguration.gitBinaryPath, or "undefined"
  gitOnPath,     \* what Executable.tryResolve('git') finds now, or "undefined"
  \* ---- the fields of a Git instance
  _checkedGitPath,
  _gitPath,
  _gitEmailResult,
  _checkedGitInfo,
  _gitInfo,
  \* ---- what has been observed of the instance
  tryResolveCalls, \* runs of Executable.tryResolve('git')
  gitPathReads,    \* reads of the gitPath getter
  gitPathResults,  \* the values the gitPath getter has returned
  configEmailRuns, \* runs of `git config user.email`
  gitInfoRuns,     \* runs of gitInfo()
  gitInfoQuery,    \* what the run of gitInfo() did
  calls,           \* calls of the instance's public members
  last,            \* the last call: its arguments, what it did and its outcome
  \* ---- the remote resolver (SpecRemote)
  repositoryUrls,  \* rushConfiguration.repositoryUrls
  remoteNames,     \* the lines `git remote` prints, or that it fails
  remoteUrlOf,     \* for each remote, what `git remote get-url` does
  remoteDefaultBranch, \* the outcome of getRemoteDefaultBranch
  \* ---- the changed files (SpecChangedFiles)
  diffLines,       \* the lines `git diff <targetBranch>...` prints
  prefixArg,       \* the pathPrefix argument of getChangedFiles
  changedFilesAll,   \* what getChangedFiles returns without a prefix
  changedFilesUnder, \* what getChangedFiles returns with that prefix
  \* ---- the uncommitted changes (SpecUncommitted)
  untrackedLines,  \* the lines `git ls-files --exclude-standard --others` prints
  headDiffLines,   \* the lines `git diff HEAD --name-only` prints
  uncommittedChanges \* the outcome of getUncommittedChanges

urlVars == <<urlParts, gitUrl, normalized, renormalized, urlPc>>

envVars == <<gitBinaryPath, gitOnPath>>

gitPathVars ==
  <<_checkedGitPath, _gitPath, tryResolveCalls, gitPathReads, gitPathResults>>

emailVars == <<_gitEmailResult, configEmailRuns>>

infoVars == <<_checkedGitInfo, _gitInfo, gitInfoRuns, gitInfoQuery>>

gitVars == <<envVars, gitPathVars, emailVars, infoVars, calls, last>>

remoteVars == <<repositoryUrls, remoteNames, remoteUrlOf, remoteDefaultBranch>>

changedVars == <<diffLines, prefixArg, changedFilesAll, changedFilesUnder>>

uncommittedVars == <<untrackedLines, headDiffLines, uncommittedChanges>>

vars == <<urlVars, gitVars, remoteVars, changedVars, uncommittedVars>>

\* JavaScript's undefined / null: a value that is no string of characters
\* (every character of a modelled string is a one-character string).
Undefined == <<"undefined">>

\* The outcome of an operation that has not run yet.
NotDone == [done |-> FALSE, threw |-> "none", value |-> <<>>]

\* The variables of the operations a behaviour does not run.
UrlIdle ==
  /\ urlParts = Undefined
  /\ gitUrl = <<>>
  /\ normalized = Undefined
  /\ renormalized = Undefined
  /\ urlPc = "idle"

RemoteIdle ==
  /\ repositoryUrls = <<>>
  /\ remoteNames = Undefined
  /\ remoteUrlOf = Undefined
  /\ remoteDefaultBranch = NotDone

ChangedIdle ==
  /\ diffLines = Undefined
  /\ prefixArg = Undefined
  /\ changedFilesAll = NotDone
  /\ changedFilesUnder = NotDone

UncommittedIdle ==
  /\ untrackedLines = Undefined
  /\ headDiffLines = Undefined
  /\ uncommittedChanges = NotDone

(***************************************************************************)
(* String helpers: the methods of String.prototype the code uses          *)
(***************************************************************************)

\* The characters String.prototype.trim removes (those the model uses).
WhiteSpace == {" ", "\n", "\t", "\r"}

\* The characters "." of a regular expression does not match.
LineTerminators == {"\n", "\r"}

LowerLetters == <<"a","b","c","d","e","f","g","h","i","j","k","l","m",
                  "n","o","p","q","r","s","t","u","v","w","x","y","z">>
UpperLetters == <<"A","B","C","D","E","F","G","H","I","J","K","L","M",
                  "N","O","P","Q","R","S","T","U","V","W","X","Y","Z">>
Digits == {"0","1","2","3","4","5","6","7","8","9"}

\* The element of a one-element set. An operator's argument and a LET
\* definition are evaluated anew at each use, a bound variable once: the
\* operators below bind what they use more than once, as Val({e : x \in {v}}).
Val(S) == CHOOSE v \in S : TRUE

Range(s) == {s[i] : i \in 1..Len(s)}

\* Position of c in the alphabet t, 0 when absent.
PosIn(t, c) == IF c \in Range(t) THEN CHOOSE i \in 1..Len(t) : t[i] = c ELSE 0

toUpperCaseChar(c) ==
  IF c \in Range(LowerLetters) THEN UpperLetters[PosIn(LowerLetters, c)] ELSE c

toLowerCaseChar(c) ==
  IF c \in Range(UpperLetters) THEN LowerLetters[PosIn(UpperLetters, c)] ELSE c

toUpperCase(str) ==
  Val({ SubSeq([i \in 1..Len(s) |-> toUpperCaseChar(s[i])], 1, Len(s)) : s \in {str} })

toLowerCase(str) ==
  Val({ SubSeq([i \in 1..Len(s) |-> toLowerCaseChar(s[i])], 1, Len(s)) : s \in {str} })

\* s.trim(): s without its leading and trailing white space.
trim(str) ==
  Val({ IF \A i \in 1..Len(s) : s[i] \in WhiteSpace THEN <<>>
        ELSE SubSeq(s,
               CHOOSE i \in 1..Len(s) :
                 s[i] \notin WhiteSpace /\ \A j \in 1..(i - 1) : s[j] \in WhiteSpace,
               CHOOSE i \in 1..Len(s) :
                 s[i] \notin WhiteSpace /\ \A j \in (i + 1)..Len(s) : s[j] \in WhiteSpace)
        : s \in {str} })

\* First position of a character of the set cs, 0 when none occurs.
indexOfAny(str, cs) ==
  Val({ IF \E i \in 1..Len(s) : s[i] \in cs
          THEN CHOOSE i \in 1..Len(s) :
                 s[i] \in cs /\ \A j \in 1..(i - 1) : s[j] \notin cs
          ELSE 0
        : s \in {str} })

\* s.indexOf(c), 1-based; 0 when c does not occur (JavaScript's -1).
indexOf(str, c) == indexOfAny(str, {c})

\* s.lastIndexOf(c) among the positions 1..upTo, 0 when none.
lastIndexOf(str, c, upTo) ==
  Val({ IF \E i \in 1..n : s[i] = c
          THEN CHOOSE i \in 1..n : s[i] = c /\ \A j \in (i + 1)..n : s[j] # c
          ELSE 0
        : s \in {str}, n \in {upTo} })

startsWith(str, prefix) ==
  Val({ Len(s) >= Len(p) /\ SubSeq(s, 1, Len(p)) = p : s \in {str}, p \in {prefix} })

endsWith(str, suffix) ==
  Val({ Len(s) >= Len(p) /\ SubSeq(s, Len(s) - Len(p) + 1, Len(s)) = p
        : s \in {str}, p \in {suffix} })

\* s.slice(from) with a 1-based from.
sliceFrom(str, from) == Val({ SubSeq(s, from, Len(s)) : s \in {str} })

\* The position of the k-th separator of s, at the positions seps; 0 for
\* k = 0 and Len(s) + 1 past the last one.
SeparatorAt(s, seps, k) ==
  IF k = 0 THEN 0
  ELSE IF k > Cardinality(seps) THEN Len(s) + 1
  ELSE CHOOSE i \in seps : Cardinality({j \in seps : j <= i}) = k

\* s.split(sep) for a one-character sep: the pieces between the separators,
\* one more than there are separators.
split(str, sep) ==
  Val({ SubSeq([k \in 1..(Cardinality(seps) + 1) |->
                  SubSeq(s, SeparatorAt(s, seps, k - 1) + 1, SeparatorAt(s, seps, k) - 1)],
               1, Cardinality(seps) + 1)
        : <<s, seps>> \in {<<t, {i \in 1..Len(t) : t[i] = sep}>> : t \in {str}} })

\* What a template string `${x}` prints for a field of url.parse's result,
\* which is a string or null.
Interpolate(x) == IF x = Undefined THEN <<"n","u","l","l">> ELSE x

(***************************************************************************)
(* Git.normalizeGitUrlForComparison                                        *)
(***************************************************************************)

NoMatch == [matched |-> FALSE, host |-> <<>>, path |-> <<>>]

\* The match of the text before the first colon (no "/" in it) and the text
\* after it: the optional user group is tried first (it ends at the first
\* "@"); when the host left after it is shorter than two characters the
\* match is retried without it. "." matches no line terminator, and the path
\* may not start with "//".
scpGroups(before, after) ==
  Val({ IF \/ "/" \in Range(before)
           \/ Len(after) < 1
           \/ startsWith(after, <<"/", "/">>)
           \/ \E i \in 1..Len(after) : after[i] \in LineTerminators
          THEN NoMatch
        ELSE IF at >= 2 /\ Len(before) - at >= 2
          THEN [matched |-> TRUE, host |-> sliceFrom(before, at + 1), path |-> after]
        ELSE IF Len(before) >= 2
          THEN [matched |-> TRUE, host |-> before, path |-> after]
        ELSE NoMatch
        : at \in {indexOf(before, "@")} })

\* /^(?:[^@:\/]+\@)?([^:\/]{2,})\:((?!\/\/).+)$/ : whether s matches, and
\* the groups 1 (host) and 2 (path). The character classes exclude ":", so
\* the colon is the first one of s; "$" is the end of s.
scpLikeSyntaxRegExp(str) ==
  Val({ IF colon = 0 THEN NoMatch
        ELSE Val({ scpGroups(before, after)
                   : before \in {SubSeq(s, 1, colon - 1)},
                     after \in {sliceFrom(s, colon + 1)} })
        : <<s, colon>> \in {<<t, indexOf(t, ":")>> : t \in {str}} })

\* url.parse: /^[a-z0-9.+-]+:/i
ProtocolChars ==
  Range(LowerLetters) \cup Range(UpperLetters) \cup Digits \cup {".", "+", "-"}

\* url.parse: the protocols that are followed by "//" and whose empty path
\* is "/".
slashedProtocol ==
  { <<"h","t","t","p",":">>, <<"h","t","t","p","s",":">>, <<"f","t","p",":">>,
    <<"g","o","p","h","e","r",":">>, <<"f","i","l","e",":">>,
    <<"w","s",":">>, <<"w","s","s",":">> }

\* url.parse: the characters that end the host.
hostEndingChars == {"/", "?", "#"}

\* url.parse: the characters that cannot be part of a host (the quotes, the
\* braces, the backslash, the bar, the caret and the backtick, which no
\* modelled string holds, are left out).
nonHostChars ==
  {"%", "/", "?", ";", "#", "<", ">", " ", "\r", "\n", "\t"}

\* Characters of a host name part: /^[+a-z0-9A-Z_-]{0,63}$/, and the dots
\* between the parts.
HostnameChars ==
  Range(LowerLetters) \cup Range(UpperLetters) \cup Digits \cup {"+", "_", "-", "."}

\* url.parse, the protocol: [protocol, slashes, rest] of the trimmed string,
\* protocol as written (with its colon) or null, rest what follows the
\* protocol and its "//".
parseProtocol(str) ==
  Val({ IF colon >= 2 /\ \A i \in 1..(colon - 1) : s[i] \in ProtocolChars
          THEN Val({ [protocol |-> SubSeq(s, 1, colon),
                      slashes  |-> startsWith(rest, <<"/", "/">>),
                      rest     |-> IF startsWith(rest, <<"/", "/">>)
                                     THEN sliceFrom(rest, 3) ELSE rest]
                     : rest \in {sliceFrom(s, colon + 1)} })
          ELSE [protocol |-> Undefined, slashes |-> FALSE, rest |-> s]
        : <<s, colon>> \in {<<t, indexOf(t, ":")>> : t \in {trim(str)}} })

\* url.parse, the credentials: what follows the last "@" that comes before
\* the end of the host.
dropAuth(str) ==
  Val({ IF atSign > 0 THEN sliceFrom(s, atSign + 1) ELSE s
        : <<s, atSign>> \in
            {<<t, lastIndexOf(t, "@",
                    IF indexOfAny(t, hostEndingChars) = 0 THEN Len(t)
                    ELSE indexOfAny(t, hostEndingChars))>> : t \in {str}} })

\* url.parse's parseHost: the host name and the port of a host, the port
\* being the digits after a colon at the end of the host (/:[0-9]*$/).
parseHost(rawHost) ==
  Val({ IF c > 0 /\ \A i \in (c + 1)..Len(h) : h[i] \in Digits
          THEN [hostname |-> SubSeq(h, 1, c - 1), port |-> sliceFrom(h, c + 1)]
          ELSE [hostname |-> h, port |-> <<>>]
        : <<h, c>> \in {<<t, lastIndexOf(t, ":", Len(t))>> : t \in {rawHost}} })

\* url.parse, the host: [host, rest] of what follows the credentials. The
\* host ends at the first character that cannot be part of one; the host
\* name is cut at its first invalid character (what follows goes to the
\* path) and lower-cased; host is the host name and the port.
parseHostAndRest(str) ==
  Val({ Val({ [host |-> toLowerCase(IF badAt = 0 THEN hp.hostname
                                    ELSE SubSeq(hp.hostname, 1, badAt - 1))
                        \o (IF hp.port = <<>> THEN <<>> ELSE <<":">> \o hp.port),
               hostname |-> IF badAt = 0 THEN hp.hostname
                            ELSE SubSeq(hp.hostname, 1, badAt - 1),
               rest |-> (IF badAt = 0 THEN <<>>
                         ELSE <<"/">> \o sliceFrom(hp.hostname, badAt))
                        \o (IF hostEnd = 0 THEN <<>> ELSE sliceFrom(s, hostEnd))]
              : <<hp, badAt>> \in
                  {<<q, indexOfAny(q.hostname, Range(q.hostname) \ HostnameChars)>>
                     : q \in {parseHost(IF hostEnd = 0 THEN s
                                        ELSE SubSeq(s, 1, hostEnd - 1))}} })
        : <<s, hostEnd>> \in {<<t, indexOfAny(t, nonHostChars)>> : t \in {str}} })

\* url.parse, the path: [pathname, search] of what follows the host, the
\* fragment cut at the first "#" and the query at the first "?".
parsePath(str) ==
  Val({ Val({ [pathname |-> IF qm = 0 THEN noHash ELSE SubSeq(noHash, 1, qm - 1),
               search   |-> IF qm = 0 THEN Undefined ELSE sliceFrom(noHash, qm)]
              : <<noHash, qm>> \in
                  {<<t, indexOf(t, "?")>>
                     : t \in {IF hash = 0 THEN s ELSE SubSeq(s, 1, hash - 1)}} })
        : <<s, hash>> \in {<<t, indexOf(t, "#")>> : t \in {str}} })

\* url.parse, after the protocol p: the host is parsed after "//", or after
\* a protocol that needs none; an empty path is null, or "/" after a slashed
\* protocol with a host.
parseAfterProtocol(p) ==
  IF p.protocol = Undefined
    THEN Val({ [protocol |-> Undefined, host |-> Undefined, search |-> pa.search,
                pathname |-> IF pa.pathname = <<>> THEN Undefined ELSE pa.pathname]
               : pa \in {parsePath(p.rest)} })
  ELSE IF p.slashes \/ p.protocol \notin slashedProtocol
    THEN Val({ Val({ [protocol |-> toLowerCase(p.protocol),
                      host     |-> hr.host,
                      search   |-> pa.search,
                      pathname |-> IF pa.pathname # <<>> THEN pa.pathname
                                   ELSE IF toLowerCase(p.protocol) \in slashedProtocol
                                           /\ hr.hostname # <<>>
                                     THEN <<"/">>
                                   ELSE Undefined]
                     : pa \in {parsePath(hr.rest)} })
               : hr \in {parseHostAndRest(dropAuth(p.rest))} })
  ELSE Val({ [protocol |-> toLowerCase(p.protocol), host |-> Undefined,
              search |-> pa.search,
              pathname |-> IF pa.pathname = <<>> THEN Undefined ELSE pa.pathname]
             : pa \in {parsePath(p.rest)} })

\* url.parse(u) of Node.js (the legacy parser, slashesDenoteHost false), for
\* the fields the code reads: protocol, host and pathname (and search), each
\* a string or null.
urlParse(u) == Val({ parseAfterProtocol(p) : p \in {parseProtocol(u)} })

\* The schemes of the switch statement.
RecognizedProtocols ==
  { <<"h","t","t","p",":">>, <<"h","t","t","p","s",":">>, <<"s","s","h",":">>,
    <<"f","t","p",":">>, <<"f","t","p","s",":">>, <<"g","i","t",":">>,
    <<"g","i","t","+","h","t","t","p",":">>,
    <<"g","i","t","+","h","t","t","p","s",":">>,
    <<"g","i","t","+","s","s","h",":">>,
    <<"g","i","t","+","f","t","p",":">>,
    <<"g","i","t","+","f","t","p","s",":">> }

HttpsPrefix == <<"h","t","t","p","s",":","/","/">>

\* result.replace(/.git\/?$/, ''): the dot is not escaped, so it stands for
\* any character but a line terminator.
trimDotGit(str) ==
  Val({ IF n >= 5 /\ endsWith(s, <<"g","i","t","/">>) /\ s[n - 4] \notin LineTerminators
          THEN SubSeq(s, 1, n - 5)
        ELSE IF n >= 4 /\ endsWith(s, <<"g","i","t">>) /\ s[n - 3] \notin LineTerminators
          THEN SubSeq(s, 1, n - 4)
        ELSE s
        : <<s, n>> \in {<<t, Len(t)>> : t \in {str}} })

\* A plausible slip: the path with its query string (parsedUrl.path) in the
\* place of parsedUrl.pathname.
assembleParts_path(parsedUrl) ==
  HttpsPrefix \o Interpolate(parsedUrl.host) \o Interpolate(parsedUrl.pathname)
              \o (IF parsedUrl.search = Undefined THEN <<>> ELSE parsedUrl.search)

\* "Assemble the parts we want": `https://${parsedUrl.host}${parsedUrl.pathname}`
assembleParts(parsedUrl) ==
  HttpsPrefix \o Interpolate(parsedUrl.host) \o Interpolate(parsedUrl.pathname)

\* The SCP-like syntax rewritten: `https://${host}${path}` when the path
\* starts with "/", `https://${host}/${path}` otherwise; without a match the
\* trimmed URL.
rewriteScpLike(scpLikeSyntaxMatch, trimmed) ==
  IF scpLikeSyntaxMatch.matched
    THEN IF startsWith(scpLikeSyntaxMatch.path, <<"/">>)
           THEN HttpsPrefix \o scpLikeSyntaxMatch.host \o scpLikeSyntaxMatch.path
           ELSE HttpsPrefix \o scpLikeSyntaxMatch.host \o <<"/">> \o scpLikeSyntaxMatch.path
    ELSE trimmed

\* Only recognized schemes are converted.
convertRecognized(result, parsedUrl) ==
  IF parsedUrl.protocol \in RecognizedProtocols THEN assembleParts(parsedUrl) ELSE result

\* The regular expression is run on gitUrl, not on the trimmed result.
normalizeGitUrlForComparison(gitUrlArg) ==
  Val({ trimDotGit(Val({ convertRecognized(result, parsedUrl)
                         : <<result, parsedUrl>> \in
                             {<<r, urlParse(r)>>
                                : r \in {rewriteScpLike(scpLikeSyntaxMatch, trim(url))}} }))
        : <<url, scpLikeSyntaxMatch>> \in
            {<<u, scpLikeSyntaxRegExp(u)>> : u \in {gitUrlArg}} })

(***************************************************************************)
(* A Git instance: the memoized Git path and e-mail, the command runner,   *)
(* fetch, getMergeBase, getChangedFiles and getBlobContent.                *)
(***************************************************************************)

\* The calls a behaviour makes of one instance.
MaxCalls == 3

\* No path: the undefined of gitBinaryPath, tryResolve and _gitPath.
NoPath == "undefined"

\* The errors a call can end with.
NoError == "none"
GitNotPresentError == "Error: Git is not present"
UnexpectedBranchFormatError == "Error: Unexpected git remote branch format"
CommandError == "Error: the command failed"
GitVersionError == "Error: the minimum Git version is not met"
AlreadyReported == "AlreadyReportedError"

\* A memoized IResultOrError<string>, or undefined.
NoResult == [kind |-> "undefined", value |-> <<>>]
ResultOf(str) == [kind |-> "result", value |-> str]
ErrorOf(e) == [kind |-> "error", value |-> e]

\* What the environment makes of a run of Git through
\* Utilities.executeCommandAndCaptureOutput: its output, or a failure.
Executions(outputs) ==
  {[ok |-> TRUE, output |-> o] : o \in outputs} \cup {[ok |-> FALSE, output |-> <<>>]}

\* What ensureGitMinimumVersion does: it returns, or it throws.
VersionChecks == {"returns", "throws"}

\* The exit status of a spawned `git fetch` ("null": no exit status).
SpawnStatuses == {"0", "1", "null"}

\* The target branches: of the <remote>/<branch name> form, and not.
Branches == { <<"o","/","m">>, <<"m">> }

\* The outputs of `git config user.email`: an address, and an empty value.
EmailOutputs == { <<"b","@","x","\n">>, <<"\n">> }
MergeBaseOutputs == { <<"c","0","\n">> }
BlobOutputs == { <<"x","\n">> }
DiffOutputs == { <<"a","\n","b","/","c","\n">> }

\* A call that did nothing yet.
NoCall ==
  [op |-> "none", targetBranch |-> <<>>, fetchRequested |-> FALSE,
   fetch |-> "notRequested", warnings |-> 0, cmd |-> "none",
   versionCheck |-> "none", printed |-> "none", threw |-> NoError,
   returned |-> <<>>, reads |-> 0]

\* get gitPath(): the value, and what the getter leaves in the instance;
\* probes counts its runs of Executable.tryResolve, which `||` runs only
\* when gitBinaryPath is not set.
gitPath_untilFound ==
  IF _gitPath = NoPath
    THEN [checked |-> TRUE,
          path    |-> IF gitBinaryPath # NoPath THEN gitBinaryPath ELSE gitOnPath,
          probes  |-> IF gitBinaryPath # NoPath THEN 0 ELSE 1]
    ELSE [checked |-> _checkedGitPath, path |-> _gitPath, probes |-> 0]

gitPath ==
  IF ~_checkedGitPath
    THEN [checked |-> TRUE,
          path    |-> IF gitBinaryPath # NoPath THEN gitBinaryPath ELSE gitOnPath,
          probes  |-> IF gitBinaryPath # NoPath THEN 0 ELSE 1]
    ELSE [checked |-> _checkedGitPath, path |-> _gitPath, probes |-> 0]

\* getGitPathOrThrow()
getGitPathOrThrow ==
  [threw |-> IF gitPath.path = NoPath THEN GitNotPresentError ELSE NoError,
   value |-> gitPath.path]

\* The instance after `reads` reads of the gitPath getter (none: unchanged).
ReadGitPath(reads) ==
  IF reads = 0 THEN UNCHANGED gitPathVars
  ELSE /\ _checkedGitPath' = gitPath.checked
       /\ _gitPath' = gitPath.path
       /\ tryResolveCalls' = tryResolveCalls + gitPath.probes
       /\ gitPathReads' = gitPathReads + reads
       /\ gitPathResults' = gitPathResults \cup {gitPath.path}

\* _executeGitCommandAndCaptureOutput: the output, or, after the check of the
\* minimum version, the error of the command; an error of the check itself
\* leaves the catch block in its place.
_executeGitCommandAndCaptureOutput_noVersionCheck(execution, versionCheck) ==
  IF execution.ok
    THEN [threw |-> NoError, output |-> execution.output,
          cmd |-> "ok", versionCheck |-> "none"]
    ELSE [threw |-> CommandError, output |-> <<>>,
          cmd |-> "failed", versionCheck |-> "none"]

_executeGitCommandAndCaptureOutput(execution, versionCheck) ==
  IF execution.ok
    THEN [threw |-> NoError, output |-> execution.output,
          cmd |-> "ok", versionCheck |-> "none"]
  ELSE IF versionCheck = "throws"
    THEN [threw |-> GitVersionError, output |-> <<>>,
          cmd |-> "failed", versionCheck |-> "threw"]
  ELSE [threw |-> CommandError, output |-> <<>>,
        cmd |-> "failed", versionCheck |-> "returned"]

\* _tryFetchRemoteBranch: whether `git fetch <remote> <branch>` exited with
\* status 0; it throws for a branch without "/" and when Git is not present.
_tryFetchRemoteBranch(remoteBranchName, spawnStatus) ==
  IF indexOf(remoteBranchName, "/") = 0
    THEN [threw |-> UnexpectedBranchFormatError, result |-> FALSE, reads |-> 0]
  ELSE IF getGitPathOrThrow.threw # NoError
    THEN [threw |-> getGitPathOrThrow.threw, result |-> FALSE, reads |-> 1]
  ELSE [threw |-> NoError, result |-> spawnStatus = "0", reads |-> 1]

\* A plausible slip: a fetch that fails raises an error.
_fetchRemoteBranch_throwing(remoteBranchName, spawnStatus) ==
  IF _tryFetchRemoteBranch(remoteBranchName, spawnStatus).threw # NoError
    THEN [fetch |-> "threw", warnings |-> 0,
          threw |-> _tryFetchRemoteBranch(remoteBranchName, spawnStatus).threw,
          reads |-> _tryFetchRemoteBranch(remoteBranchName, spawnStatus).reads]
  ELSE IF ~_tryFetchRemoteBranch(remoteBranchName, spawnStatus).result
    THEN [fetch |-> "failed", warnings |-> 0, threw |-> CommandError, reads |-> 1]
  ELSE [fetch |-> "succeeded", warnings |-> 0, threw |-> NoError, reads |-> 1]

\* _fetchRemoteBranch: a fetch that did not succeed writes one warning line
\* to the terminal; an error of _tryFetchRemoteBranch is not caught.
_fetchRemoteBranch(remoteBranchName, spawnStatus) ==
  IF _tryFetchRemoteBranch(remoteBranchName, spawnStatus).threw # NoError
    THEN [fetch |-> "threw", warnings |-> 0,
          threw |-> _tryFetchRemoteBranch(remoteBranchName, spawnStatus).threw,
          reads |-> _tryFetchRemoteBranch(remoteBranchName, spawnStatus).reads]
  ELSE IF ~_tryFetchRemoteBranch(remoteBranchName, spawnStatus).result
    THEN [fetch |-> "failed", warnings |-> 1, threw |-> NoError, reads |-> 1]
  ELSE [fetch |-> "succeeded", warnings |-> 0, threw |-> NoError, reads |-> 1]

\* The fetch step of getMergeBase and getChangedFiles.
FetchStep(requested, remoteBranchName, spawnStatus) ==
  IF requested THEN _fetchRemoteBranch(remoteBranchName, spawnStatus)
  ELSE [fetch |-> "notRequested", warnings |-> 0, threw |-> NoError, reads |-> 0]

\* Path.isUnderOrEqual(childPath, parentFolderPath): the folders of the
\* parent path are the first folders of the child path.
PathSegments(path) == SelectSeq(split(path, "/"), LAMBDA seg : seg # <<>>)

isAbsolute(path) == startsWith(path, <<"/">>)

\* Relative paths are resolved against the working directory, which is not
\* taken to be a folder of the absolute paths: an absolute path and a
\* relative path are not under one another.
isUnderOrEqual(childPath, parentFolderPath) ==
  /\ isAbsolute(childPath) = isAbsolute(parentFolderPath)
  /\ Val({ Len(c) >= Len(q) /\ SubSeq(c, 1, Len(q)) = q
           : c \in {PathSegments(childPath)}, q \in {PathSegments(parentFolderPath)} })

\* The callback of map in getChangedFiles: the trimmed line, or undefined for
\* an empty line and for a line that is not under the path prefix. A prefix
\* that is undefined or empty filters nothing.
mapChangedLine(line, pathPrefix) ==
  IF line # <<>>
    THEN Val({ IF pathPrefix = Undefined \/ pathPrefix = <<>>
                  \/ isUnderOrEqual(trimmedLine, pathPrefix)
                 THEN trimmedLine
                 ELSE Undefined
               : trimmedLine \in {trim(line)} })
    ELSE Undefined

\* A plausible slip: the line is returned as it is, not trimmed.
changedFilesOf_untrimmed(output, pathPrefix) ==
  Val({ SelectSeq(SubSeq([i \in 1..Len(lines) |->
                            IF mapChangedLine(lines[i], pathPrefix) = Undefined
                              THEN Undefined ELSE lines[i]],
                         1, Len(lines)),
                  LAMBDA line : line # Undefined /\ Len(line) > 0)
        : lines \in {split(output, "\n")} })

\* What getChangedFiles makes of the output of `git diff`: split on newlines,
\* mapped, and filtered for the lines that are defined and not empty.
changedFilesOf(output, pathPrefix) ==
  Val({ SelectSeq(SubSeq([i \in 1..Len(lines) |-> mapChangedLine(lines[i], pathPrefix)],
                         1, Len(lines)),
                  LAMBDA line : line # Undefined /\ Len(line) > 0)
        : lines \in {split(output, "\n")} })

\* The command of an operation, run after its fetch step f: an error of the
\* fetch step ends the operation; getGitPathOrThrow comes before the command.
RunAfterFetch(f, execution, versionCheck) ==
  IF f.threw # NoError
    THEN [threw |-> f.threw, output |-> <<>>, cmd |-> "none",
          versionCheck |-> "none", reads |-> f.reads]
  ELSE IF getGitPathOrThrow.threw # NoError
    THEN [threw |-> getGitPathOrThrow.threw, output |-> <<>>, cmd |-> "none",
          versionCheck |-> "none", reads |-> f.reads + 1]
  ELSE Val({ [threw |-> r.threw, output |-> r.output, cmd |-> r.cmd,
              versionCheck |-> r.versionCheck, reads |-> f.reads + 1]
             : r \in {_executeGitCommandAndCaptureOutput(execution, versionCheck)} })

\* The record of a call of getMergeBase or getChangedFiles, from its fetch
\* step f and its command r.
FetchingCall(op, targetBranch, f, r, returned) ==
  [op |-> op, targetBranch |-> targetBranch,
   fetchRequested |-> f.fetch # "notRequested", fetch |-> f.fetch,
   warnings |-> f.warnings, cmd |-> r.cmd, versionCheck |-> r.versionCheck,
   printed |-> "none", threw |-> r.threw,
   returned |-> IF r.threw = NoError THEN returned ELSE Undefined,
   reads |-> r.reads]

\* getMergeBase(targetBranch, terminal, shouldFetch): the trimmed output of
\* `git --no-optional-locks merge-base HEAD <targetBranch> --`.
getMergeBase(targetBranch, shouldFetch, spawnStatus, execution, versionCheck) ==
  Val({ FetchingCall("getMergeBase", targetBranch, f, r, trim(r.output))
        : <<f, r>> \in
            {<<g, RunAfterFetch(g, execution, versionCheck)>>
               : g \in {FetchStep(shouldFetch, targetBranch, spawnStatus)}} })

\* getChangedFiles(targetBranch, terminal, skipFetch, pathPrefix): the lines
\* of `git diff <targetBranch>... --name-only --no-renames --diff-filter=A`.
getChangedFiles(targetBranch, skipFetch, pathPrefix, spawnStatus, execution, versionCheck) ==
  Val({ FetchingCall("getChangedFiles", targetBranch, f, r,
                     changedFilesOf(r.output, pathPrefix))
        : <<f, r>> \in
            {<<g, RunAfterFetch(g, execution, versionCheck)>>
               : g \in {FetchStep(~skipFetch, targetBranch, spawnStatus)}} })

\* getBlobContent: the output of `git cat-file blob <blobSpec> --`, as it is.
getBlobContent(execution, versionCheck) ==
  Val({ [NoCall EXCEPT !.op = "getBlobContent", !.cmd = r.cmd, !.reads = r.reads,
                       !.versionCheck = r.versionCheck, !.threw = r.threw,
                       !.returned = IF r.threw = NoError THEN r.output ELSE Undefined]
        : r \in {RunAfterFetch(FetchStep(FALSE, <<>>, "0"), execution, versionCheck)} })

\* A plausible slip: only a result is memoized, an error is not.
_tryGetGitEmail_forgetError(execution, versionCheck) ==
  IF _gitEmailResult.kind # "undefined"
    THEN [emailResult |-> _gitEmailResult, cache |-> _gitEmailResult, threw |-> NoError,
          runs |-> 0, reads |-> 0, cmd |-> "none", versionCheck |-> "none"]
  ELSE IF getGitPathOrThrow.threw # NoError
    THEN [emailResult |-> NoResult, cache |-> NoResult,
          threw |-> getGitPathOrThrow.threw,
          runs |-> 0, reads |-> 1, cmd |-> "none", versionCheck |-> "none"]
  ELSE Val({ [emailResult |-> IF r.threw = NoError THEN ResultOf(trim(r.output))
                              ELSE ErrorOf(r.threw),
              cache |-> IF r.threw = NoError THEN ResultOf(trim(r.output))
                        ELSE NoResult,
              threw |-> NoError, runs |-> 1, reads |-> 1,
              cmd |-> r.cmd, versionCheck |-> r.versionCheck]
             : r \in {_executeGitCommandAndCaptureOutput(execution, versionCheck)} })

\* _tryGetGitEmail: the memoized result or error of `git config user.email`,
\* run when nothing is memoized yet. getGitPathOrThrow is outside the try
\* block: its error is thrown and nothing is memoized.
_tryGetGitEmail(execution, versionCheck) ==
  IF _gitEmailResult.kind # "undefined"
    THEN [emailResult |-> _gitEmailResult, cache |-> _gitEmailResult, threw |-> NoError,
          runs |-> 0, reads |-> 0, cmd |-> "none", versionCheck |-> "none"]
  ELSE IF getGitPathOrThrow.threw # NoError
    THEN [emailResult |-> NoResult, cache |-> NoResult,
          threw |-> getGitPathOrThrow.threw,
          runs |-> 0, reads |-> 1, cmd |-> "none", versionCheck |-> "none"]
  ELSE Val({ [emailResult |-> IF r.threw = NoError THEN ResultOf(trim(r.output))
                              ELSE ErrorOf(r.threw),
              cache |-> IF r.threw = NoError THEN ResultOf(trim(r.output))
                        ELSE ErrorOf(r.threw),
              threw |-> NoError, runs |-> 1, reads |-> 1,
              cmd |-> r.cmd, versionCheck |-> r.versionCheck]
             : r \in {_executeGitCommandAndCaptureOutput(execution, versionCheck)} })

\* tryGetGitEmail, given what _tryGetGitEmail did: the e-mail when it is
\* configured and not empty, undefined otherwise.
tryGetGitEmail(e) ==
  [NoCall EXCEPT !.op = "tryGetGitEmail", !.cmd = e.cmd, !.reads = e.reads,
                 !.versionCheck = e.versionCheck, !.threw = e.threw,
                 !.returned = IF /\ e.threw = NoError
                                 /\ e.emailResult.kind = "result"
                                 /\ Len(e.emailResult.value) > 0
                                THEN e.emailResult.value
                                ELSE Undefined]

\* A plausible slip: only an error of the query is reported, an e-mail that
\* is empty is returned.
getGitEmail_returnsEmpty(e) ==
  IF e.threw # NoError
    THEN [NoCall EXCEPT !.op = "getGitEmail", !.threw = e.threw, !.reads = e.reads,
                        !.returned = Undefined]
  ELSE IF e.emailResult.kind = "error"
    THEN [NoCall EXCEPT !.op = "getGitEmail", !.cmd = e.cmd, !.reads = e.reads,
                        !.versionCheck = e.versionCheck, !.returned = Undefined,
                        !.printed = "Unable to determine your Git configuration",
                        !.threw = AlreadyReported]
  ELSE [NoCall EXCEPT !.op = "getGitEmail", !.cmd = e.cmd, !.reads = e.reads,
                      !.versionCheck = e.versionCheck,
                      !.returned = e.emailResult.value]

\* getGitEmail, given what _tryGetGitEmail did: the e-mail, or instructions
\* on the console and AlreadyReportedError.
getGitEmail(e) ==
  IF e.threw # NoError
    THEN [NoCall EXCEPT !.op = "getGitEmail", !.threw = e.threw, !.reads = e.reads,
                        !.returned = Undefined]
  ELSE IF e.emailResult.kind = "error"
    THEN [NoCall EXCEPT !.op = "getGitEmail", !.cmd = e.cmd, !.reads = e.reads,
                        !.versionCheck = e.versionCheck, !.returned = Undefined,
                        !.printed = "Unable to determine your Git configuration",
                        !.threw = AlreadyReported]
  ELSE IF Len(e.emailResult.value) = 0
    THEN [NoCall EXCEPT !.op = "getGitEmail", !.cmd = e.cmd, !.reads = e.reads,
                        !.versionCheck = e.versionCheck, !.returned = Undefined,
                        !.printed = "This operation requires that a Git email be specified",
                        !.threw = AlreadyReported]
  ELSE [NoCall EXCEPT !.op = "getGitEmail", !.cmd = e.cmd, !.reads = e.reads,
                      !.versionCheck = e.versionCheck,
                      !.returned = e.emailResult.value]

\* A gitInfo.GitRepoInfo, or undefined (present is FALSE); sha is a string, or
\* null.
NoInfo == [present |-> FALSE, sha |-> Undefined]
RepoInfo(sha) == [present |-> TRUE, sha |-> sha]

\* repoInfo.sha is truthy: a string that is not empty.
hasSha(repoInfo) == repoInfo.sha # Undefined /\ repoInfo.sha # <<>>

\* What a run of gitInfo() does: it throws, or it returns the info or nothing.
NoQuery == [threw |-> FALSE, info |-> NoInfo]
GitInfoOutcomes ==
  {[threw |-> TRUE, info |-> NoInfo], [threw |-> FALSE, info |-> NoInfo]}
    \cup {[threw |-> FALSE, info |-> RepoInfo(sha)]
            : sha \in {Undefined, <<>>, <<"c","0">>}}

\* isPathUnderGitWorkingTree(repoInfo), for a repoInfo that is given.
\* A plausible slip: the SHA is not looked at.
isPathUnderGitWorkingTree_anyInfo(repoInfo) ==
  IF gitPath.path # NoPath THEN repoInfo.present ELSE FALSE

isPathUnderGitWorkingTree(repoInfo) ==
  IF gitPath.path # NoPath
    THEN repoInfo.present /\ hasSha(repoInfo)
    ELSE FALSE

\* getGitInfo(), when a run of gitInfo() would do what query says: the value
\* returned (info), the fields it leaves, and its runs of gitInfo() and reads
\* of gitPath. An error of gitInfo() is caught; `&&` calls
\* isPathUnderGitWorkingTree only for a repoInfo that is defined.
getGitInfo(query) ==
  IF ~_checkedGitInfo
    THEN Val({ [checked |-> TRUE,
                info |-> IF repoInfo.present /\ isPathUnderGitWorkingTree(repoInfo)
                           THEN repoInfo ELSE _gitInfo,
                runs |-> 1,
                reads |-> IF repoInfo.present THEN 1 ELSE 0,
                query |-> query]
               : repoInfo \in {IF query.threw THEN NoInfo ELSE query.info} })
    ELSE [checked |-> _checkedGitInfo, info |-> _gitInfo, runs |-> 0, reads |-> 0,
          query |-> gitInfoQuery]

\* isPathUnderGitWorkingTree(), without a repoInfo: the result of
\* getGitInfo() is used when Git is present.
isPathUnderGitWorkingTreeOfInstance(query) ==
  IF gitPath.path # NoPath
    THEN Val({ [returned |-> g.info.present /\ hasSha(g.info),
                checked |-> g.checked, info |-> g.info, runs |-> g.runs,
                reads |-> 1 + g.reads, query |-> g.query]
               : g \in {getGitInfo(query)} })
    ELSE [returned |-> FALSE, checked |-> _checkedGitInfo, info |-> _gitInfo,
          runs |-> 0, reads |-> 1, query |-> gitInfoQuery]

(***************************************************************************)
(* Spec: calls of the public members of one Git instance, in any order,    *)
(* while Git may appear on the PATH or disappear from it.                  *)
(***************************************************************************)

GitPaths == {NoPath, "/usr/bin/git"}
GitBinaryPaths == {NoPath, "/opt/git/bin/git"}

\* The instance a constructor leaves, in the environment env.
NewInstance ==
  /\ _checkedGitPath = FALSE
  /\ _gitPath = NoPath
  /\ _gitEmailResult = NoResult
  /\ tryResolveCalls = 0
  /\ gitPathReads = 0
  /\ gitPathResults = {}
  /\ configEmailRuns = 0
  /\ _checkedGitInfo = FALSE
  /\ _gitInfo = NoInfo
  /\ gitInfoRuns = 0
  /\ gitInfoQuery = NoQuery
  /\ calls = 0
  /\ last = NoCall

GitInit ==
  /\ gitBinaryPath \in GitBinaryPaths
  /\ gitOnPath \in GitPaths
  /\ NewInstance

\* An instance that is never called.
GitIdle ==
  /\ gitBinaryPath = NoPath
  /\ gitOnPath = NoPath
  /\ NewInstance

\* The end of a call: its record, and the reads of the gitPath getter it made.
EndCall(call) ==
  /\ calls < MaxCalls
  /\ calls' = calls + 1
  /\ last' = call
  /\ ReadGitPath(call.reads)
  /\ UNCHANGED envVars

\* The end of a call that does not ask for the Git info.
Return(call) == EndCall(call) /\ UNCHANGED infoVars

\* The fields and the observations that getGitInfo leaves, as g says.
StoreGitInfo(g) ==
  /\ _checkedGitInfo' = g.checked
  /\ _gitInfo' = g.info
  /\ gitInfoRuns' = gitInfoRuns + g.runs
  /\ gitInfoQuery' = g.query

\* git.getGitInfo()
GetGitInfo ==
  \E query \in GitInfoOutcomes :
    \E g \in {getGitInfo(query)} :
      /\ EndCall([NoCall EXCEPT !.op = "getGitInfo", !.reads = g.reads,
                                !.returned = g.info])
      /\ StoreGitInfo(g)
      /\ UNCHANGED <<emailVars, urlVars, remoteVars, changedVars, uncommittedVars>>

\* git.isPathUnderGitWorkingTree()
IsPathUnderGitWorkingTree ==
  \E query \in GitInfoOutcomes :
    \E g \in {isPathUnderGitWorkingTreeOfInstance(query)} :
      /\ EndCall([NoCall EXCEPT !.op = "isPathUnderGitWorkingTree", !.reads = g.reads,
                                !.returned = g.returned])
      /\ StoreGitInfo(g)
      /\ UNCHANGED <<emailVars, urlVars, remoteVars, changedVars, uncommittedVars>>

\* git.gitPath
GetGitPath ==
  /\ Return([NoCall EXCEPT !.op = "gitPath", !.returned = gitPath.path, !.reads = 1])
  /\ UNCHANGED <<emailVars, urlVars, remoteVars, changedVars, uncommittedVars>>

\* git.getGitPathOrThrow()
GetGitPathOrThrow ==
  /\ Return([NoCall EXCEPT !.op = "getGitPathOrThrow", !.reads = 1,
                           !.threw = getGitPathOrThrow.threw,
                           !.returned = getGitPathOrThrow.value])
  /\ UNCHANGED <<emailVars, urlVars, remoteVars, changedVars, uncommittedVars>>

\* git.isGitPresent()
IsGitPresent ==
  /\ Return([NoCall EXCEPT !.op = "isGitPresent", !.reads = 1,
                           !.returned = (gitPath.path # NoPath)])
  /\ UNCHANGED <<emailVars, urlVars, remoteVars, changedVars, uncommittedVars>>

\* git.tryGetGitEmail()
TryGetGitEmail ==
  \E execution \in Executions(EmailOutputs), versionCheck \in VersionChecks :
    \E e \in {_tryGetGitEmail(execution, versionCheck)} :
      /\ Return(tryGetGitEmail(e))
      /\ _gitEmailResult' = e.cache
      /\ configEmailRuns' = configEmailRuns + e.runs
      /\ UNCHANGED <<urlVars, remoteVars, changedVars, uncommittedVars>>

\* git.getGitEmail()
GetGitEmail ==
  \E execution \in Executions(EmailOutputs), versionCheck \in VersionChecks :
    \E e \in {_tryGetGitEmail(execution, versionCheck)} :
      /\ Return(getGitEmail(e))
      /\ _gitEmailResult' = e.cache
      /\ configEmailRuns' = configEmailRuns + e.runs
      /\ UNCHANGED <<urlVars, remoteVars, changedVars, uncommittedVars>>

\* git.getMergeBase(targetBranch, terminal, shouldFetch)
GetMergeBase ==
  \E targetBranch \in Branches, shouldFetch \in BOOLEAN, spawnStatus \in SpawnStatuses,
     execution \in Executions(MergeBaseOutputs), versionCheck \in VersionChecks :
    /\ Return(getMergeBase(targetBranch, shouldFetch, spawnStatus, execution, versionCheck))
    /\ UNCHANGED <<emailVars, urlVars, remoteVars, changedVars, uncommittedVars>>

\* git.getChangedFiles(targetBranch, terminal, skipFetch, pathPrefix)
GetChangedFiles ==
  \E targetBranch \in Branches, skipFetch \in BOOLEAN, spawnStatus \in SpawnStatuses,
     pathPrefix \in {Undefined, <<"b">>},
     execution \in Executions(DiffOutputs), versionCheck \in VersionChecks :
    /\ Return(getChangedFiles(targetBranch, skipFetch, pathPrefix, spawnStatus,
                              execution, versionCheck))
    /\ UNCHANGED <<emailVars, urlVars, remoteVars, changedVars, uncommittedVars>>

\* git.getBlobContent({ blobSpec, repositoryRoot })
GetBlobContent ==
  \E execution \in Executions(BlobOutputs), versionCheck \in VersionChecks :
    /\ Return(getBlobContent(execution, versionCheck))
    /\ UNCHANGED <<emailVars, urlVars, remoteVars, changedVars, uncommittedVars>>

\* Git is installed on the PATH, or removed from it, between two calls.
PathChanges ==
  /\ gitOnPath' \in GitPaths \ {gitOnPath}
  /\ UNCHANGED <<gitBinaryPath, gitPathVars, emailVars, infoVars, calls, last>>
  /\ UNCHANGED <<urlVars, remoteVars, changedVars, uncommittedVars>>

Next ==
  \/ GetGitPath
  \/ GetGitPathOrThrow
  \/ IsGitPresent
  \/ TryGetGitEmail
  \/ GetGitEmail
  \/ GetMergeBase
  \/ GetChangedFiles
  \/ GetBlobContent
  \/ PathChanges

Init == GitInit /\ UrlIdle /\ RemoteIdle /\ ChangedIdle /\ UncommittedIdle

Spec == Init /\ [][Next]_vars

\* The operations that start with a fetch step when one is requested.
FetchingOps == {"getMergeBase", "getChangedFiles"}

\* The errors that _tryFetchRemoteBranch raises itself.
FetchStepErrors == {UnexpectedBranchFormatError, GitNotPresentError}

HasRemoteBranchFormat(branch) == indexOf(branch, "/") # 0

\* C4 (amended): a fetch that ran and did not succeed (an exit status other
\* than 0) only writes one warning to the terminal, and the operation goes
\* on to run its merge-base / diff command; but for a target branch that is
\* not of the <remote>/<branch name> form, and when Git is not found, the
\* fetch step raises an error that reaches the caller, and the command of
\* the operation is not run.
C4_FailedFetchWarnsOtherwiseThrows ==
  (last.op \in FetchingOps /\ last.fetchRequested) =>
     /\ last.fetch \in {"succeeded", "failed", "threw"}
     /\ last.fetch = "failed" =>
          /\ last.warnings = 1
          /\ last.cmd # "none"
          /\ last.threw \notin FetchStepErrors
     /\ last.fetch = "succeeded" => (last.warnings = 0 /\ last.cmd # "none")
     /\ last.fetch = "threw" <=>
          (~HasRemoteBranchFormat(last.targetBranch) \/ _gitPath = NoPath)
     /\ last.fetch = "threw" =>
          /\ last.warnings = 0
          /\ last.cmd = "none"
          /\ last.threw =
               IF ~HasRemoteBranchFormat(last.targetBranch)
                 THEN UnexpectedBranchFormatError ELSE GitNotPresentError

\* C4's case: the fetch of getChangedFiles failed, one warning was written,
\* and the diff command ran and gave the changed files.
C4_Witness ==
  /\ last.op = "getChangedFiles"
  /\ last.fetch = "failed"
  /\ last.warnings = 1
  /\ last.cmd = "ok"
  /\ last.returned = << <<"a">>, <<"b","/","c">> >>

\* C4 as stated: whenever the requested fetch does not succeed, there is a
\* warning, the command of the operation runs, and no error of the fetch
\* step reaches the caller.
C4_FetchNeverAborts ==
  (last.op \in FetchingOps /\ last.fetchRequested /\ last.fetch # "succeeded") =>
     /\ last.warnings = 1
     /\ last.cmd # "none"
     /\ last.threw \notin FetchStepErrors

\* C5: over any sequence of operations on one instance Executable.tryResolve
\* runs at most once, and all reads of gitPath give one and the same outcome,
\* the memoized one, whatever the PATH has become since.
C5_GitPathProbedAtMostOnce ==
  /\ tryResolveCalls <= 1
  /\ Cardinality(gitPathResults) <= 1
  /\ gitPathReads > 0 => (_checkedGitPath /\ gitPathResults = {_gitPath})
  /\ (gitPathReads > 0 /\ gitBinaryPath = NoPath) => tryResolveCalls = 1

\* C5's case: "not found" was memoized; Git is on the PATH since, and a later
\* call still answers "not found" without a second probe.
C5_Witness ==
  /\ gitPathReads >= 2
  /\ tryResolveCalls = 1
  /\ _gitPath = NoPath
  /\ gitOnPath # NoPath
  /\ last.op = "isGitPresent"
  /\ last.returned = FALSE

EmailOps == {"tryGetGitEmail", "getGitEmail"}

\* C6: over any sequence of calls `git config user.email` runs at most once;
\* once it ran, its result or its error is memoized, and a call that finds
\* it runs no command.
C6_ConfigEmailRunsAtMostOnce ==
  /\ configEmailRuns <= 1
  /\ configEmailRuns = 1 <=> _gitEmailResult.kind \in {"result", "error"}
  /\ (last.op \in EmailOps /\ last.cmd = "none" /\ last.threw # GitNotPresentError) =>
        configEmailRuns = 1

\* C6's case: the query failed and its error is memoized; a later getGitEmail
\* ran no command and reported the memoized error.
C6_Witness ==
  /\ _gitEmailResult.kind = "error"
  /\ configEmailRuns = 1
  /\ last.op = "getGitEmail"
  /\ last.cmd = "none"
  /\ last.threw = AlreadyReported

\* The operations whose caller gets the runner's error as it is.
DirectOps == {"getMergeBase", "getChangedFiles", "getBlobContent"}

\* The error that leaves the runner's catch block.
ErrorAfterVersionCheck(call) ==
  IF call.versionCheck = "threw" THEN GitVersionError ELSE CommandError

\* C10 (amended): when a command fails, the runner calls
\* ensureGitMinimumVersion, and the error of the command reaches the caller
\* unless ensureGitMinimumVersion throws: then its error reaches the caller
\* in place of the command's.
C10_OriginalErrorUnlessVersionCheckThrows ==
  /\ (last.op \in DirectOps /\ last.cmd = "failed") =>
        /\ last.versionCheck \in {"returned", "threw"}
        /\ last.threw = ErrorAfterVersionCheck(last)
  /\ (last.op \in EmailOps /\ last.cmd = "failed") =>
        /\ last.versionCheck \in {"returned", "threw"}
        /\ _gitEmailResult = ErrorOf(ErrorAfterVersionCheck(last))
  /\ last.cmd # "failed" => last.versionCheck = "none"

\* C10's case: the merge-base command failed, the version check returned,
\* and the caller got the error of the command.
C10_Witness ==
  /\ last.op = "getMergeBase"
  /\ last.cmd = "failed"
  /\ last.versionCheck = "returned"
  /\ last.threw = CommandError

\* C10 as stated: after a failed command the version check is called and the
\* caller gets the error of the command in every case.
C10_OriginalErrorInEveryCase ==
  (last.op \in DirectOps /\ last.cmd = "failed") =>
     /\ last.versionCheck \in {"returned", "threw"}
     /\ last.threw = CommandError

\* The memoized e-mail is no e-mail: the query failed, or its output is empty.
EmailAbsent ==
  \/ _gitEmailResult.kind = "error"
  \/ _gitEmailResult.kind = "result" /\ _gitEmailResult.value = <<>>

\* The texts getGitEmail prints before it throws AlreadyReportedError.
RemediationTexts ==
  {"Unable to determine your Git configuration",
   "This operation requires that a Git email be specified"}

NextInfo ==
  \/ GetGitInfo
  \/ IsPathUnderGitWorkingTree
  \/ IsGitPresent
  \/ PathChanges

SpecInfo == Init /\ [][NextInfo]_vars

\* The run of gitInfo() returned, without throwing, an info with a SHA.
QueryGaveSha ==
  /\ ~gitInfoQuery.threw
  /\ gitInfoQuery.info.present
  /\ hasSha(gitInfoQuery.info)

\* C12 (amended): getGitInfo returns the info, the one that gitInfo() gave,
\* exactly when the run of gitInfo() returned without throwing an info whose
\* SHA is present and the Git binary is found; in every other case (the run
\* threw, no SHA, no Git binary) it returns undefined, and it never throws.
\* gitInfo() runs once, and later calls return what the first one stored.
C12_InfoIffShaAndGitPresent ==
  /\ gitInfoRuns <= 1
  /\ _checkedGitInfo <=> gitInfoRuns = 1
  /\ _checkedGitInfo =>
        /\ _gitInfo.present <=> (QueryGaveSha /\ _gitPath # NoPath)
        /\ _gitInfo.present => _gitInfo = gitInfoQuery.info
  /\ last.op = "getGitInfo" =>
        /\ last.threw = NoError
        /\ _checkedGitInfo
        /\ last.returned = _gitInfo
  /\ last.op = "isPathUnderGitWorkingTree" =>
        /\ last.threw = NoError
        /\ last.returned = (_gitPath # NoPath /\ _gitInfo.present)

\* C12's case: gitInfo() gave an info with a SHA, Git is found, and a second
\* call of getGitInfo returned the info without a second run.
C12_Witness ==
  /\ last.op = "getGitInfo"
  /\ calls >= 2
  /\ gitInfoRuns = 1
  /\ QueryGaveSha
  /\ last.returned.present
  /\ last.returned.sha = <<"c","0">>

\* C12 as stated: the info is returned exactly when the run of gitInfo()
\* returned an info whose SHA is present.
C12_InfoIffSha ==
  _checkedGitInfo => (_gitInfo.present <=> QueryGaveSha)

(***************************************************************************)
(* SpecUrl: normalizeGitUrlForComparison applied to URLs of every          *)
(* supported form, and applied again to its own result.                    *)
(***************************************************************************)

DotGit == <<".","g","i","t">>

\* The schemes the inputs are spelled with: the recognized ones, and file,
\* which the switch statement does not list.
Schemes ==
  {SubSeq(p, 1, Len(p) - 1) : p \in RecognizedProtocols} \cup {<<"f","i","l","e">>}

Hosts == { <<"h","o">>, <<"h","o",".","x","z">> }
Users == { <<>>, <<"g","i","t">> }
Passwords == { <<>>, <<"p","w">> }
Ports == { <<>>, <<"2","2">> }
\* Org/Repo, a repository whose name ends in "git", and no path at all.
Paths == { <<"O","r","g","/","R","e","p","o">>, <<"O","/","l","e","g","i","t">>, <<>> }
Suffixes == { <<>>, DotGit, DotGit \o <<"/">> }
Queries == { <<>>, <<"?","q">> }
Fragments == { <<>>, <<"#","f">> }
\* What follows the URL: nothing, or the newline a command's output ends with.
Pads == { <<>>, <<"\n">> }

ScpInputs ==
  [form : {"scp"}, scheme : {<<>>}, user : Users, password : {<<>>},
   host : Hosts, port : {<<>>}, path : Paths, suffix : Suffixes,
   query : {<<>>}, fragment : {<<>>}, pad : Pads]

UrlInputs ==
  {p \in [form : {"url"}, scheme : Schemes, user : Users, password : Passwords,
          host : Hosts, port : Ports, path : Paths, suffix : Suffixes,
          query : Queries, fragment : Fragments, pad : Pads] :
     p.password # <<>> => p.user # <<>>}

\* The URL string spelled from its components.
Spell(p) ==
  IF p.form = "scp"
    THEN (IF p.user = <<>> THEN <<>> ELSE p.user \o <<"@">>)
         \o p.host \o <<":">> \o p.path \o p.suffix \o p.pad
    ELSE p.scheme \o <<":","/","/">>
         \o (IF p.user = <<>> THEN <<>>
             ELSE p.user \o (IF p.password = <<>> THEN <<>> ELSE <<":">> \o p.password)
                         \o <<"@">>)
         \o p.host
         \o (IF p.port = <<>> THEN <<>> ELSE <<":">> \o p.port)
         \o (IF p.path \o p.suffix = <<>> THEN <<>> ELSE <<"/">> \o p.path \o p.suffix)
         \o p.query \o p.fragment \o p.pad

UrlInputInit ==
  /\ urlParts \in ScpInputs \cup UrlInputs
  /\ gitUrl = Spell(urlParts)
  /\ normalized = Undefined
  /\ renormalized = Undefined
  /\ urlPc = "input"

\* A call of Git.normalizeGitUrlForComparison(gitUrl).
Normalize ==
  /\ urlPc = "input"
  /\ normalized' = normalizeGitUrlForComparison(gitUrl)
  /\ urlPc' = "normalized"
  /\ UNCHANGED <<urlParts, gitUrl, renormalized>>
  /\ UNCHANGED <<gitVars, remoteVars, changedVars, uncommittedVars>>

\* A second call, on the result of the first.
Renormalize ==
  /\ urlPc = "normalized"
  /\ renormalized' = normalizeGitUrlForComparison(normalized)
  /\ urlPc' = "renormalized"
  /\ UNCHANGED <<urlParts, gitUrl, normalized>>
  /\ UNCHANGED <<gitVars, remoteVars, changedVars, uncommittedVars>>

NextUrl == Normalize \/ Renormalize

UrlInit == UrlInputInit /\ GitIdle /\ RemoteIdle /\ ChangedIdle /\ UncommittedIdle

SpecUrl == UrlInit /\ [][NextUrl]_vars

(***************************************************************************)
(* Claims about the URL normalizer                                         *)
(***************************************************************************)

\* C1: normalizeGitUrlForComparison is idempotent: normalizing the result of
\* a normalization again gives that same result, for every supported form.
\* It is stated for the URLs spelled without stray white space and with a path.
C1_NormalizeIdempotent ==
  (urlPc = "renormalized" /\ urlParts.pad = <<>> /\ urlParts.path # <<>>) =>
     renormalized = normalized

\* The spellings C2 is about: [user@]host:path, ssh://[user@]host/path and
\* https://host/path, with or without a trailing .git, and nothing else.
IsPlainSpelling(p) ==
  /\ p.form = "scp" \/ p.scheme \in {<<"s","s","h">>, <<"h","t","t","p","s">>}
  /\ p.path # <<>>
  /\ p.suffix \in {<<>>, DotGit}
  /\ p.password = <<>> /\ p.port = <<>> /\ p.query = <<>> /\ p.fragment = <<>>
  /\ p.pad = <<>>

\* C2: the SCP-like, the ssh:// and the https:// spelling of one host and
\* path, with or without a trailing .git, all normalize to https://host/path
\* without the .git suffix.
C2_SpellingsNormalizeToHttpsHostPath ==
  (urlPc # "input" /\ IsPlainSpelling(urlParts)) =>
     normalized = HttpsPrefix \o urlParts.host \o <<"/">> \o urlParts.path

\* A URL spelled with one of the schemes of the switch statement.
IsRecognizedUrl(p) ==
  p.form = "url" /\ (p.scheme \o <<":">>) \in RecognizedProtocols

\* The same URL without credentials, query string and fragment.
Bare(p) ==
  [p EXCEPT !.user = <<>>, !.password = <<>>, !.query = <<>>, !.fragment = <<>>]

\* The path name of a URL: "/" and its path; for a URL without a path "/"
\* after a slashed protocol, and null (printed "null") after another.
PathnameOf(p) ==
  IF p.path \o p.suffix # <<>> THEN <<"/">> \o p.path \o p.suffix
  ELSE IF (p.scheme \o <<":">>) \in slashedProtocol THEN <<"/">>
  ELSE <<"n","u","l","l">>

HostAndPortOf(p) ==
  toLowerCase(p.host) \o (IF p.port = <<>> THEN <<>> ELSE <<":">> \o p.port)

\* C9 (amended): for every URL with a recognized scheme the result is built
\* from the host, the port when there is one, and the path: it is
\* https://host[:port]pathname with the trailing .git pattern removed, so
\* credentials, query string and fragment never reach it, and two URLs that
\* differ only in those normalize to the same string.
C9_BuiltFromHostPortAndPath ==
  (urlPc # "input" /\ IsRecognizedUrl(urlParts)) =>
     /\ normalized =
          trimDotGit(HttpsPrefix \o HostAndPortOf(urlParts) \o PathnameOf(urlParts))
     /\ normalized = normalizeGitUrlForComparison(Spell(Bare(urlParts)))

\* C9's case: a URL with credentials, port, query string and fragment has
\* been normalized, and the port is what is left of them.
C9_Witness ==
  /\ urlPc = "normalized"
  /\ IsRecognizedUrl(urlParts)
  /\ urlParts.user # <<>> /\ urlParts.password # <<>> /\ urlParts.port # <<>>
  /\ urlParts.query # <<>> /\ urlParts.fragment # <<>>
  /\ urlParts.scheme = <<"s","s","h">>
  /\ normalized = <<"h","t","t","p","s",":","/","/","h","o",":","2","2",
                    "/","O","r","g","/","R","e","p","o">>

\* C9 as stated: the result is built from the host name and the path only;
\* the port number never appears in it.
C9_BuiltFromHostNameAndPathOnly ==
  (urlPc # "input" /\ IsRecognizedUrl(urlParts)) =>
     normalized =
       trimDotGit(HttpsPrefix \o toLowerCase(urlParts.host) \o PathnameOf(urlParts))

\* The string without a literal ".git/" or ".git" at its end.
WithoutDotGitSuffix(str) ==
  IF endsWith(str, DotGit \o <<"/">>) THEN SubSeq(str, 1, Len(str) - 5)
  ELSE IF endsWith(str, DotGit) THEN SubSeq(str, 1, Len(str) - 4)
  ELSE str

\* C13: for a URL with a recognized scheme the last step removes a literal
\* ".git" or ".git/" at the end and nothing else: the result is https://,
\* the host and the path, unchanged but for that suffix.
C13_OnlyLiteralDotGitRemoved ==
  (urlPc # "input" /\ IsRecognizedUrl(urlParts)) =>
     normalized =
       WithoutDotGitSuffix(HttpsPrefix \o HostAndPortOf(urlParts) \o PathnameOf(urlParts))

(***************************************************************************)
(* SpecRemote: getRemoteDefaultBranch, for the configured repository URLs  *)
(* and the remotes of the working tree                                     *)
(***************************************************************************)

\* The configured repository URLs of a behaviour, at most.
MaxBaselineUrls == 2

\* The lines `git remote` prints in a behaviour, at most.
MaxRemotes == 2

\* rushConfiguration.repositoryDefaultBranch and
\* rushConfiguration.repositoryDefaultFullyQualifiedRemoteBranch
repositoryDefaultBranch == <<"m">>
repositoryDefaultFullyQualifiedRemoteBranch == <<"d","/","m">>

\* What console.log prints in getRemoteDefaultBranch.
MoreThanOneMatch == "More than one git remote matches the repository URL"
NoMatchOfUrls == "Unable to find a git remote matching one of the repository URLs"
NoMatchOfUrl == "Unable to find a git remote matching the repository URL"
NoUrlSpecified == "A git remote URL has not been specified in rush.json"

\* matchingRemotes[0]
\* A plausible slip: the last matching remote is taken.
firstMatch_last(matchingRemotes) == matchingRemotes[Len(matchingRemotes)]

firstMatch(matchingRemotes) == matchingRemotes[1]

\* The callback of filter in getRemoteDefaultBranch, for a remote whose
\* `git remote get-url` succeeds: a line that is empty is no remote, a remote
\* whose trimmed URL is empty does not match.
isMatchingRemote(remoteName, urlOf, normalizedRepositoryUrls) ==
  IF remoteName = <<>> THEN FALSE
  ELSE Val({ IF remoteUrl = <<>> THEN FALSE
             ELSE toUpperCase(normalizeGitUrlForComparison(remoteUrl))
                    \in normalizedRepositoryUrls
             : remoteUrl \in {trim(urlOf[remoteName].output)} })

\* getRemoteDefaultBranch from the filter on: the first remote get-url that
\* fails ends the call with the error of the command runner.
selectRemoteBranch(urls, remoteNameLines, urlOf, versionCheck) ==
  IF \E i \in 1..Len(remoteNameLines) :
       remoteNameLines[i] # <<>> /\ ~urlOf[remoteNameLines[i]].ok
    THEN [threw |-> _executeGitCommandAndCaptureOutput(
                      [ok |-> FALSE, output |-> <<>>], versionCheck).threw,
          returned |-> Undefined, printed |-> "none", cmd |-> "failed"]
  ELSE Val({ IF Len(matchingRemotes) > 0
               THEN [threw |-> NoError,
                     returned |-> firstMatch(matchingRemotes) \o <<"/">>
                                    \o repositoryDefaultBranch,
                     printed |-> IF Len(matchingRemotes) > 1
                                   THEN MoreThanOneMatch ELSE "none",
                     cmd |-> "ok"]
               ELSE [threw |-> NoError,
                     returned |-> repositoryDefaultFullyQualifiedRemoteBranch,
                     printed |-> IF Len(urls) > 1 THEN NoMatchOfUrls ELSE NoMatchOfUrl,
                     cmd |-> "ok"]
             : matchingRemotes \in
                 { SelectSeq(remoteNameLines,
                     LAMBDA remoteName :
                       isMatchingRemote(remoteName, urlOf, normalizedRepositoryUrls))
                   : normalizedRepositoryUrls \in
                       { {toUpperCase(normalizeGitUrlForComparison(urls[i]))
                            : i \in 1..Len(urls)} } } })

\* getRemoteDefaultBranch(): listing is what `git remote` does, urlOf what
\* `git remote get-url <remoteName>` does.
getRemoteDefaultBranch(urls, listing, urlOf, versionCheck) ==
  IF Len(urls) = 0
    THEN [threw |-> NoError, returned |-> repositoryDefaultFullyQualifiedRemoteBranch,
          printed |-> NoUrlSpecified, cmd |-> "none", reads |-> 0]
  ELSE IF getGitPathOrThrow.threw # NoError
    THEN [threw |-> getGitPathOrThrow.threw, returned |-> Undefined,
          printed |-> "none", cmd |-> "none", reads |-> 1]
  ELSE Val({ IF r.threw # NoError
               THEN [threw |-> r.threw, returned |-> Undefined,
                     printed |-> "none", cmd |-> "failed", reads |-> 1]
               ELSE Val({ [threw |-> b.threw, returned |-> b.returned,
                           printed |-> b.printed, cmd |-> b.cmd, reads |-> 1]
                          : b \in {selectRemoteBranch(urls, split(trim(r.output), "\n"),
                                                      urlOf, versionCheck)} })
             : r \in {_executeGitCommandAndCaptureOutput(listing, versionCheck)} })

\* The sequences over S of length n at most.
SeqsUpTo(S, n) == UNION {[1..k -> S] : k \in 0..n}

\* The output of a command that prints the lines, each ended by a newline.
RECURSIVE JoinLines(_)
JoinLines(lines) ==
  IF lines = <<>> THEN <<>>
  ELSE Head(lines) \o <<"\n">> \o JoinLines(Tail(lines))

\* The configured URLs: one that the first remote URL below matches but for
\* the case of its letters, an empty one, and one that no remote has.
BaselineUrls ==
  { <<"h","t","t","p","s",":","/","/","h","o","/","r">>,
    <<>>,
    <<"h","t","t","p","s",":","/","/","e","x","/","y">> }

RemoteNames == { <<"o">>, <<"u">> }

\* The lines of `git remote`: the names, and an empty line.
RemoteNameLines == RemoteNames \cup { <<>> }

\* The outputs of `git remote get-url`: two URLs, and an empty URL.
RemoteUrlOutputs ==
  { <<"g","i","t","@","h","o",":","R",".","g","i","t","\n">>,
    <<"h","t","t","p","s",":","/","/","e","x","/","x","\n">>,
    <<"\n">> }

RemoteInputInit ==
  /\ repositoryUrls \in SeqsUpTo(BaselineUrls, MaxBaselineUrls)
  /\ remoteNames \in
       {[ok |-> FALSE, lines |-> <<>>]}
         \cup [ok : {TRUE}, lines : SeqsUpTo(RemoteNameLines, MaxRemotes)]
  /\ remoteUrlOf \in [RemoteNames -> Executions(RemoteUrlOutputs)]
  /\ remoteDefaultBranch = NotDone

\* A new instance where tryResolve decides whether Git is found.
GitOnPathOrNot ==
  /\ gitBinaryPath = NoPath
  /\ gitOnPath \in GitPaths
  /\ NewInstance

\* git.getRemoteDefaultBranch()
GetRemoteDefaultBranch ==
  /\ ~remoteDefaultBranch.done
  /\ \E versionCheck \in VersionChecks :
       \E b \in {getRemoteDefaultBranch(
                   repositoryUrls,
                   [ok |-> remoteNames.ok, output |-> JoinLines(remoteNames.lines)],
                   remoteUrlOf, versionCheck)} :
         /\ Return([NoCall EXCEPT !.op = "getRemoteDefaultBranch", !.reads = b.reads,
                                  !.cmd = b.cmd, !.printed = b.printed,
                                  !.threw = b.threw, !.returned = b.returned])
         /\ remoteDefaultBranch' = [done |-> TRUE, threw |-> b.threw, value |-> b.returned]
  /\ UNCHANGED <<repositoryUrls, remoteNames, remoteUrlOf>>
  /\ UNCHANGED <<emailVars, urlVars, changedVars, uncommittedVars>>

NextRemote == GetRemoteDefaultBranch

InitRemote ==
  GitOnPathOrNot /\ RemoteInputInit /\ UrlIdle /\ ChangedIdle /\ UncommittedIdle

SpecRemote == InitRemote /\ [][NextRemote]_vars

\* The remotes in the order Git listed them.
ListedRemotes == SelectSeq(remoteNames.lines, LAMBDA name : name # <<>>)

\* The URL of a remote.
UrlOfRemote(name) == trim(remoteUrlOf[name].output)

\* The set of the normalized and uppercased baseline URLs.
NormalizedBaselineUrls ==
  {toUpperCase(normalizeGitUrlForComparison(repositoryUrls[i]))
     : i \in 1..Len(repositoryUrls)}

\* A remote whose normalized and uppercased URL is in that set.
InBaseline(name) ==
  toUpperCase(normalizeGitUrlForComparison(UrlOfRemote(name))) \in NormalizedBaselineUrls

\* The same, of a remote that has a URL.
HasUrlInBaseline(name) == UrlOfRemote(name) # <<>> /\ InBaseline(name)

\* The reference rule, for a sequence of matching remotes.
ReferenceBranch(matching) ==
  IF Len(repositoryUrls) = 0 \/ Len(matching) = 0
    THEN repositoryDefaultFullyQualifiedRemoteBranch
    ELSE matching[1] \o <<"/">> \o repositoryDefaultBranch

\* getRemoteDefaultBranch cannot return: Git is not found, or a command fails.
RemoteCommandsFail ==
  /\ Len(repositoryUrls) > 0
  /\ \/ gitOnPath = NoPath
     \/ ~remoteNames.ok
     \/ \E i \in 1..Len(ListedRemotes) : ~remoteUrlOf[ListedRemotes[i]].ok

\* C3 (amended): getRemoteDefaultBranch returns unless Git is not found or a
\* command fails, and what it returns is the result of the reference rule
\* where a remote matches when its URL is not empty and the normalized and
\* uppercased URL is in the set of the baseline URLs: the default fully
\* qualified branch, after a warning, when no URL is configured or no remote
\* matches; <r>/<default branch> for the first remote r that matches.
C3_FirstRemoteWithUrlInBaseline ==
  remoteDefaultBranch.done =>
     /\ remoteDefaultBranch.threw # NoError <=> RemoteCommandsFail
     /\ remoteDefaultBranch.threw = NoError =>
          /\ remoteDefaultBranch.value =
               ReferenceBranch(SelectSeq(ListedRemotes, HasUrlInBaseline))
          /\ remoteDefaultBranch.value = repositoryDefaultFullyQualifiedRemoteBranch
               => last.printed \in {NoUrlSpecified, NoMatchOfUrl, NoMatchOfUrls}

\* C3's case: two remotes match, in the order u, o: u is taken.
C3_Witness ==
  /\ remoteDefaultBranch.done
  /\ ListedRemotes = << <<"u">>, <<"o">> >>
  /\ HasUrlInBaseline(<<"u">>)
  /\ HasUrlInBaseline(<<"o">>)
  /\ remoteDefaultBranch.value = <<"u","/","m">>
  /\ last.printed = MoreThanOneMatch

\* C3 as stated: what is returned is the result of the reference rule where
\* a remote matches when its normalized and uppercased URL is in the set.
C3_FirstRemoteInBaseline ==
  (remoteDefaultBranch.done /\ remoteDefaultBranch.threw = NoError) =>
     remoteDefaultBranch.value = ReferenceBranch(SelectSeq(ListedRemotes, InBaseline))

(***************************************************************************)
(* SpecChangedFiles: getChangedFiles, without and with a path prefix, for  *)
(* one output of `git diff`                                                *)
(***************************************************************************)

\* The lines `git diff` prints in a behaviour, at most.
MaxDiffLines == 3

\* The lines of the output of `git diff`: an empty line, a blank line, paths,
\* a path with white space around it, an absolute path.
DiffLineChoices ==
  { <<>>, <<" ">>, <<"a">>, <<"a","/","b">>, <<" ","b","/","a"," ">>,
    <<"a","b">>, <<"/","a">> }

\* The path prefixes: none, an empty one, folders.
PathPrefixes == { Undefined, <<>>, <<"a">>, <<"a","/","b">>, <<"b">> }

\* A new instance in an environment where tryResolve finds Git.
GitFound ==
  /\ gitBinaryPath = NoPath
  /\ gitOnPath = "/usr/bin/git"
  /\ NewInstance

ChangedInputInit ==
  /\ diffLines \in SeqsUpTo(DiffLineChoices, MaxDiffLines)
  /\ prefixArg \in PathPrefixes
  /\ changedFilesAll = NotDone
  /\ changedFilesUnder = NotDone

\* The call getChangedFiles(targetBranch, terminal, true, prefix) when
\* `git diff` prints diffLines.
ChangedFilesCall(prefix) ==
  getChangedFiles(<<"o","/","m">>, TRUE, prefix, "0",
                  [ok |-> TRUE, output |-> JoinLines(diffLines)], "returns")

\* git.getChangedFiles(targetBranch, terminal, true)
GetChangedFilesAll ==
  /\ ~changedFilesAll.done
  /\ \E call \in {ChangedFilesCall(Undefined)} :
       /\ Return(call)
       /\ changedFilesAll' = [done |-> TRUE, threw |-> call.threw, value |-> call.returned]
  /\ UNCHANGED <<diffLines, prefixArg, changedFilesUnder>>
  /\ UNCHANGED <<emailVars, urlVars, remoteVars, uncommittedVars>>

\* git.getChangedFiles(targetBranch, terminal, true, pathPrefix)
GetChangedFilesUnder ==
  /\ ~changedFilesUnder.done
  /\ \E call \in {ChangedFilesCall(prefixArg)} :
       /\ Return(call)
       /\ changedFilesUnder' = [done |-> TRUE, threw |-> call.threw, value |-> call.returned]
  /\ UNCHANGED <<diffLines, prefixArg, changedFilesAll>>
  /\ UNCHANGED <<emailVars, urlVars, remoteVars, uncommittedVars>>

NextChangedFiles == GetChangedFilesAll \/ GetChangedFilesUnder

InitChangedFiles ==
  GitFound /\ ChangedInputInit /\ UrlIdle /\ RemoteIdle /\ UncommittedIdle

SpecChangedFiles == InitChangedFiles /\ [][NextChangedFiles]_vars

\* The lines, each trimmed, without those that are empty then.
TrimmedNonEmpty(lines) ==
  SelectSeq([i \in 1..Len(lines) |-> trim(lines[i])], LAMBDA line : line # <<>>)

\* An entry that is at or under the prefix of the behaviour; without a
\* prefix, and with an empty one, every entry is.
AtOrUnderPrefix(entry) ==
  prefixArg \in {Undefined, <<>>} \/ isUnderOrEqual(entry, prefixArg)

\* C7: getChangedFiles with a prefix returns the entries, in their order, of
\* what it returns without a prefix that are at or under the prefix, and no
\* other; in both cases the entries are the lines of the diff output,
\* trimmed, that are not empty.
C7_PrefixSelectsTrimmedLines ==
  (changedFilesAll.done /\ changedFilesUnder.done) =>
     /\ changedFilesAll.threw = NoError /\ changedFilesUnder.threw = NoError
     /\ changedFilesAll.value = TrimmedNonEmpty(diffLines)
     /\ changedFilesUnder.value = SelectSeq(changedFilesAll.value, AtOrUnderPrefix)
     /\ \A i \in 1..Len(changedFilesUnder.value) :
          /\ changedFilesUnder.value[i] # <<>>
          /\ changedFilesUnder.value[i] = trim(changedFilesUnder.value[i])
          /\ \E j \in 1..Len(diffLines) : changedFilesUnder.value[i] = trim(diffLines[j])

\* C7's case: of three lines with white space around them, one is not under
\* the prefix and is left out.
C7_Witness ==
  /\ changedFilesAll.done /\ changedFilesUnder.done
  /\ prefixArg = <<"b">>
  /\ diffLines = << <<" ","b","/","a"," ">>, <<"a","b">>, <<" ","b","/","a"," ">> >>
  /\ changedFilesAll.value = << <<"b","/","a">>, <<"a","b">>, <<"b","/","a">> >>
  /\ changedFilesUnder.value = << <<"b","/","a">>, <<"b","/","a">> >>

(***************************************************************************)
(* SpecUncommitted: getUncommittedChanges, for the outputs of its commands *)
(***************************************************************************)

\* The lines each of the two commands prints in a behaviour, at most.
MaxUncommittedLines == 2

\* _getUntrackedChanges(), given the output of `git ls-files`.
\* A plausible slip: the output is split as it is.
_getUntrackedChanges_untrimmed(output) == split(output, "\n")

_getUntrackedChanges(output) == split(trim(output), "\n")

\* _getDiffOnHEAD(), given the output of `git diff HEAD --name-only`.
_getDiffOnHEAD(output) == split(trim(output), "\n")

\* getUncommittedChanges(): each of the two private methods calls
\* getGitPathOrThrow and runs its command.
getUncommittedChanges(untrackedExecution, diffExecution, versionCheck) ==
  IF getGitPathOrThrow.threw # NoError
    THEN [NoCall EXCEPT !.op = "getUncommittedChanges", !.reads = 1,
                        !.threw = getGitPathOrThrow.threw, !.returned = Undefined]
  ELSE Val({
    IF u.threw # NoError
      THEN [NoCall EXCEPT !.op = "getUncommittedChanges", !.reads = 1, !.cmd = u.cmd,
                          !.versionCheck = u.versionCheck,
                          !.threw = u.threw, !.returned = Undefined]
    ELSE IF d.threw # NoError
      THEN [NoCall EXCEPT !.op = "getUncommittedChanges", !.reads = 2, !.cmd = d.cmd,
                          !.versionCheck = d.versionCheck,
                          !.threw = d.threw, !.returned = Undefined]
    ELSE [NoCall EXCEPT !.op = "getUncommittedChanges", !.reads = 2, !.cmd = d.cmd,
                        !.returned =
                          SelectSeq(_getUntrackedChanges(u.output)
                                      \o _getDiffOnHEAD(d.output),
                                    LAMBDA change : Len(trim(change)) > 0)]
    : u \in {_executeGitCommandAndCaptureOutput(untrackedExecution, versionCheck)},
      d \in {_executeGitCommandAndCaptureOutput(diffExecution, versionCheck)} })

\* The lines of the two outputs: empty, blank, a path, and paths with white
\* space after and before them.
UncommittedLineChoices == { <<>>, <<" ">>, <<"a">>, <<"a"," ">>, <<" ","b">> }

UncommittedInputInit ==
  /\ untrackedLines \in SeqsUpTo(UncommittedLineChoices, MaxUncommittedLines)
  /\ headDiffLines \in SeqsUpTo(UncommittedLineChoices, MaxUncommittedLines)
  /\ uncommittedChanges = NotDone

\* git.getUncommittedChanges()
GetUncommittedChanges ==
  /\ ~uncommittedChanges.done
  /\ \E untrackedOk \in BOOLEAN, diffOk \in BOOLEAN, versionCheck \in VersionChecks :
       \E call \in {getUncommittedChanges(
                      [ok |-> untrackedOk, output |-> JoinLines(untrackedLines)],
                      [ok |-> diffOk, output |-> JoinLines(headDiffLines)],
                      versionCheck)} :
         /\ Return(call)
         /\ uncommittedChanges' =
              [done |-> TRUE, threw |-> call.threw, value |-> call.returned]
  /\ UNCHANGED <<untrackedLines, headDiffLines>>
  /\ UNCHANGED <<emailVars, urlVars, remoteVars, changedVars>>

NextUncommitted == GetUncommittedChanges

InitUncommitted ==
  GitFound /\ UncommittedInputInit /\ UrlIdle /\ RemoteIdle /\ ChangedIdle

SpecUncommitted == InitUncommitted /\ [][NextUncommitted]_vars

\* The lines that are not blank.
NonBlank(lines) == SelectSeq(lines, LAMBDA line : trim(line) # <<>>)

\* A line that is not blank, without the white space before it, after it.
WithoutLeadingWhiteSpace(line) ==
  SubSeq(line, CHOOSE i \in 1..Len(line) :
                 line[i] \notin WhiteSpace /\ \A j \in 1..(i - 1) : line[j] \in WhiteSpace,
         Len(line))

WithoutTrailingWhiteSpace(line) ==
  SubSeq(line, 1,
         CHOOSE i \in 1..Len(line) :
           line[i] \notin WhiteSpace /\ \A j \in (i + 1)..Len(line) : line[j] \in WhiteSpace)

\* The lines of one output that are not blank, as the output trimmed as a
\* whole leaves them: the first without the white space before it, the last
\* without the white space after it, the others as they are.
TrimmedAtTheEnds(lines) ==
  [i \in 1..Len(lines) |->
     IF i = 1 /\ i = Len(lines) THEN trim(lines[i])
     ELSE IF i = 1 THEN WithoutLeadingWhiteSpace(lines[i])
     ELSE IF i = Len(lines) THEN WithoutTrailingWhiteSpace(lines[i])
     ELSE lines[i]]

\* C8 (amended): getUncommittedChanges returns the untracked lines followed
\* by the diff lines, without the blank ones; each output is trimmed as a
\* whole, not line by line, so only the first line of an output loses its
\* leading and only the last its trailing white space. It returns the empty
\* list when both outputs are empty.
C8_OutputsTrimmedAsAWhole ==
  (uncommittedChanges.done /\ uncommittedChanges.threw = NoError) =>
     /\ uncommittedChanges.value =
          TrimmedAtTheEnds(NonBlank(untrackedLines))
            \o TrimmedAtTheEnds(NonBlank(headDiffLines))
     /\ (untrackedLines = <<>> /\ headDiffLines = <<>>) => uncommittedChanges.value = <<>>
     /\ \A i \in 1..Len(uncommittedChanges.value) : trim(uncommittedChanges.value[i]) # <<>>

\* C8's case: two untracked lines and a diff line; the first entry keeps its
\* trailing, the second its leading white space.
C8_Witness ==
  /\ uncommittedChanges.done
  /\ untrackedLines = << <<"a"," ">>, <<" ","b">> >>
  /\ headDiffLines = << <<" ">>, <<"a">> >>
  /\ uncommittedChanges.value = << <<"a"," ">>, <<" ","b">>, <<"a">> >>

\* C8 as stated: the entries are the lines of the two outputs, each trimmed,
\* without the blank ones.
C8_EachLineTrimmed ==
  (uncommittedChanges.done /\ uncommittedChanges.threw = NoError) =>
     uncommittedChanges.value =
       TrimmedNonEmpty(untrackedLines) \o TrimmedNonEmpty(headDiffLines)

====
